---- MODULE Spec2Model ----
(***************************************************************************)
(* The template expander of scripts/generate_uber_header.py.               *)
(*                                                                         *)
(* Text is a sequence of lexemes.  A lexeme is a tuple of strings:         *)
(*   <<"ws", c>>                      one whitespace character c           *)
(*   <<"lit", s>>                     literal text s (no whitespace at its *)
(*                                    ends, no bracket)                    *)
(*   <<"@", n>>, <<"<>", n>>, <<"q", n>>   the branch spellings @n, <n>    *)
(*                                    and "n" (n a header file name)       *)
(*   <<"[[", n>>                      the simple tag [[n]]                 *)
(*   <<"[[@", c, tk, tn, ek, en>>     the conditional tag                  *)
(*                                    [[@c ? then : else]], each branch a  *)
(*                                    spelling <<kind, name>>              *)
(*   <<"/*", what, n>>                a placeholder comment naming n       *)
(* The two tag patterns of process_template match exactly the tag lexemes. *)
(***************************************************************************)
EXTENDS Integers, Sequences, FiniteSets, TLC

\* ------------------------------------------------------------------ bounds
MaxText == 5
MaxLen  == 4
MaxRefs == 1
MaxCaps == 2

\* ----------------------------------------------------------------- lexemes
SP  == <<"ws", " ">>
TAB == <<"ws", "\t">>
CR  == <<"ws", "\r">>
LF  == <<"ws", "\n">>
Txt(s) == <<"lit", s>>
Simple(n) == <<"[[", n>>
Cond(c, tk, tn, ek, en) == <<"[[@", c, tk, tn, ek, en>>

IsSimple(t) == t[1] = "[["
IsCond(t) == t[1] = "[[@"
\* [ \t]
IsHSpace(t) == t \in {SP, TAB}
\* what str.strip() strips
IsSpace(t) == t[1] = "ws"
\* replacement.strip() == ""
IsBlank(s) == \A i \in 1..Len(s) : IsSpace(s[i])

\* the first index >= i of s that holds no space or tab (Len(s)+1: none)
RECURSIVE SkipH(_, _)
SkipH(s, i) == IF i <= Len(s) /\ IsHSpace(s[i]) THEN SkipH(s, i + 1) ELSE i

\* the index after \r?\n matched at i, or i when it does not match there
AfterEol(s, i) ==
  IF i <= Len(s) /\ s[i] = LF THEN i + 1
  ELSE IF i + 1 <= Len(s) /\ s[i] = CR /\ s[i + 1] = LF THEN i + 2
  ELSE i

\* ------------------------------------------------------- _cleanup_content
\* re.sub(r'[ \t]+(\r?\n)', r'\1', content): scanning from the left, a run
\* of spaces and tabs starting at i is dropped when \r?\n follows the whole
\* run; otherwise the character at i is kept and the scan resumes at i+1.
RECURSIVE CleanFrom(_, _)
CleanFrom(s, i) ==
  IF i > Len(s) THEN <<>>
  ELSE IF IsHSpace(s[i]) /\ AfterEol(s, SkipH(s, i)) # SkipH(s, i)
       THEN SubSeq(s, SkipH(s, i), AfterEol(s, SkipH(s, i)) - 1)
              \o CleanFrom(s, AfterEol(s, SkipH(s, i)))
       ELSE <<s[i]>> \o CleanFrom(s, i + 1)

_cleanup_content(content) == CleanFrom(content, 1)

\* ------------------------------------------------------------ _replace_tag
\* template_content.replace(tag_text, replacement)
RECURSIVE ReplaceAll(_, _, _)
ReplaceAll(s, tag, r) ==
  IF s = <<>> THEN <<>>
  ELSE (IF Head(s) = tag THEN r ELSE <<Head(s)>>) \o ReplaceAll(Tail(s), tag, r)

\* ^ under re.MULTILINE
AtLineStart(s, i) == i = 1 \/ s[i - 1] = LF

\* The index after a match of
\*   ^[ \t]*TAG[ \t]*(?:\r?\n)?(?:[ \t]*\r?\n)?
\* starting at i, or 0 when the pattern does not match at i.
MatchEnd(s, i, tag) ==
  LET j == SkipH(s, i) IN
  IF ~(AtLineStart(s, i) /\ j <= Len(s) /\ s[j] = tag) THEN 0
  ELSE LET k == AfterEol(s, SkipH(s, j + 1))
           m == AfterEol(s, SkipH(s, k))
       IN IF m # SkipH(s, k) THEN m ELSE k

\* re.sub(pattern, '', template_content, flags=re.MULTILINE)
RECURSIVE DropFrom(_, _, _)
DropFrom(s, i, tag) ==
  IF i > Len(s) THEN <<>>
  ELSE IF MatchEnd(s, i, tag) # 0 THEN DropFrom(s, MatchEnd(s, i, tag), tag)
  ELSE <<s[i]>> \o DropFrom(s, i + 1, tag)

_replace_tag(template_content, tag_text, replacement) ==
  IF IsBlank(replacement)
  THEN DropFrom(template_content, 1, tag_text)
  ELSE ReplaceAll(template_content, tag_text, replacement)

\* '\n'.join(lines)
RECURSIVE Join(_)
Join(lines) ==
  IF lines = <<>> THEN <<>>
  ELSE IF Len(lines) = 1 THEN lines[1]
  ELSE lines[1] \o <<LF>> \o Join(Tail(lines))

\* the sequences over S of length at most n
SeqsUpTo(S, n) == UNION {[1..k -> S] : k \in 0..n}

\* ------------------------------------------------------- process_template
\* the names that start with STDCAPTURE (value.startswith('@STDCAPTURE'))
StdCaptureNames == {"STDCAPTURE", "STDCAPTURE_ONCE"}
StartsWithStdCapture(b) == b[1] = "@" /\ b[2] \in StdCaptureNames

\* condition, then_branch, else_branch = match.groups(), the branches stripped
Condition(tag) == tag[2]
ThenBranch(tag) == <<tag[3], tag[4]>>
ElseBranch(tag) == <<tag[5], tag[6]>>

\* value = then_branch.strip() if condition == "UBER" and is_uber else else_branch.strip()
Value(tag, is_uber) ==
  IF Condition(tag) = "UBER" /\ is_uber THEN ThenBranch(tag) ELSE ElseBranch(tag)

\* f"#include {x}"
IncludePrefix == <<Txt("#include"), SP>>
Include(b) == IncludePrefix \o <<b>>

\* the placeholder comments
Circular(n) == << <<"/*", "Circular reference detected", n>> >>
ErrorProcessing(n) == << <<"/*", "Error processing", n>> >>
\* (mutant) a missing name resolved to nothing
NotFoundSilent(n) == <<>>
NotFound(n) == << <<"/*", "Fragment or header not found", n>> >>

\* namespace of a header name
Namespace(n) ==
  IF n \in {"PROCESSOR_FEATURES_INFO"} THEN "platform"
  ELSE IF n \in {"SIMD_COMPARISONS"} THEN "simd"
  ELSE "cppon"

\* os.path.join(base_path, "templates", "headers", namespace, header_file)
TemplatePath(n, hdrs) == <<Namespace(n), hdrs[n]>>
\* os.path.join(base_path, "templates", "headers", "c++on.tmpl")
RootPath == <<"", "c++on.tmpl">>
\* the file a path names: the file system resolves "..", the path string is
\* compared as written
RealFile(path) == IF path[2] = "../c++on.tmpl" THEN RootPath ELSE path

\* fragments.get(name, [])
Get(frags, n) == IF n \in DOMAIN frags THEN frags[n] ELSE <<>>

\* [f"#include {inc}" for inc in lines]
RECURSIVE IncludeLines(_)
IncludeLines(lines) ==
  IF lines = <<>> THEN <<>>
  ELSE <<IncludePrefix \o lines[1]>> \o IncludeLines(Tail(lines))

\* (mutant) no visited check
VisitedNever(path, processed) == FALSE
\* template_path in processed_templates
Visited(path, processed) == path \in processed

\* (mutant) the mode is not asked for
CanInlineAnyMode(n, hdrs, base, is_uber) == n \in DOMAIN hdrs /\ base # "None"
\* fragment_name in headers and base_path is not None and is_uber
CanInline(n, hdrs, base, is_uber) == n \in DOMAIN hdrs /\ base # "None" /\ is_uber

\* Which branch of the if/elif chain of lines 58-101 a conditional tag takes.
Branch(tag, frags, hdrs, fs, base, processed, is_uber, std) ==
  LET value == Value(tag, is_uber)
      n == value[2]
  IN
  IF StartsWithStdCapture(ThenBranch(tag)) /\ std /\ ~is_uber THEN "capture"
  ELSE IF StartsWithStdCapture(value) THEN "suppress"
  ELSE IF value[1] = "@" THEN
    IF n = "STANDARD_INCLUDES" /\ is_uber THEN "standard_includes"
    ELSE IF n = "ASSERT_MACRO" THEN "assert_macro"
    ELSE IF n \in DOMAIN frags THEN "fragment"
    ELSE IF CanInline(n, hdrs, base, is_uber) THEN
      IF Visited(TemplatePath(n, hdrs), processed) THEN "circular"
      ELSE IF RealFile(TemplatePath(n, hdrs)) \in DOMAIN fs THEN "recurse"
      ELSE "error"
    ELSE "notfound"
  ELSE IF ~is_uber /\ value[1] \in {"q", "<>"} THEN "include"
  ELSE "literal"

\* The replacement text of a conditional tag that does not recurse.
Replacement(tag, branch, frags, is_uber) ==
  LET value == Value(tag, is_uber)
      n == value[2]
  IN
  CASE branch = "capture" -> Include(ElseBranch(tag))
    [] branch = "suppress" -> <<>>
    [] branch = "standard_includes" -> Join(IncludeLines(Get(frags, "STANDARD_INCLUDES")))
    [] branch = "assert_macro" -> Join(Get(frags, "ASSERT_MACRO"))
    [] branch = "fragment" -> Join(frags[n])
    [] branch = "circular" -> Circular(n)
    [] branch = "error" -> ErrorProcessing(n)
    [] branch = "notfound" -> NotFound(n)
    [] branch = "include" -> Include(value)
    [] OTHER -> IF value[1] = "q" THEN <<Txt(n)>> ELSE <<value>>

\* re.search(r'<([^>]+)>', else_branch): what line 61 adds to std_includes
Captured(tag) == IF ElseBranch(tag)[1] = "<>" THEN {ElseBranch(tag)[2]} ELSE {}

\* (mutant) the lines joined with spaces
SimpleReplacementJoinedBySpace(frags, n) ==
  IF n \in DOMAIN frags /\ frags[n] # <<>>
  THEN [i \in 1..Len(Join(frags[n])) |->
          IF Join(frags[n])[i] = LF THEN SP ELSE Join(frags[n])[i]]
  ELSE <<>>
\* The replacement text of a simple tag (lines 110-113).
SimpleReplacement(frags, n) == IF n \in DOMAIN frags THEN Join(frags[n]) ELSE <<>>

\* re.finditer over the text as it is when the loop starts
CondMatches(s) == SelectSeq(s, IsCond)
SimpleMatches(s) == SelectSeq(s, IsSimple)

\* ------------------------------------------------------------------ sorted
\* the code points of the spelling <n>
CodePoints(n) ==
  CASE n = "a" -> <<60, 97, 62>>
    [] n = "ab" -> <<60, 97, 98, 62>>
    [] n = "B" -> <<60, 66, 62>>
    [] OTHER -> <<60, 62>>

\* x < y for Python strings: by the first differing code point, a proper
\* prefix first
RECURSIVE LexLess(_, _)
LexLess(x, y) ==
  IF y = <<>> THEN FALSE
  ELSE IF x = <<>> THEN TRUE
  ELSE IF Head(x) # Head(y) THEN Head(x) < Head(y)
  ELSE LexLess(Tail(x), Tail(y))

StrLess(a, b) == LexLess(CodePoints(a), CodePoints(b))

\* (mutant) the greatest first
RECURSIVE SortedDescending(_)
SortedDescending(S) ==
  IF S = {} THEN <<>>
  ELSE LET m == CHOOSE x \in S : \A y \in S \ {x} : StrLess(y, x)
       IN << << <<"<>", m>> >> >> \o SortedDescending(S \ {m})
\* sorted(list(std_includes)), each element a fragment line
RECURSIVE Sorted(_)
Sorted(S) ==
  IF S = {} THEN <<>>
  ELSE LET m == CHOOSE x \in S : \A y \in S \ {x} : StrLess(x, y)
       IN << << <<"<>", m>> >> >> \o Sorted(S \ {m})

VARIABLES
  pc,                   \* where the caller of process_template is
  fragments,            \* config['fragments']
  headers,              \* config['headers']
  files,                \* the template files on disk, by path
  base_path,
  todo,                 \* the headers.items() still to visit (lines 125-142)
  target,               \* output_path of the expansion in progress
  std_includes,         \* the set of captured includes
  stack,                \* the active calls of process_template, outermost first
  processed_templates,  \* the visited set of the top-level call in progress
  written,              \* the files write_file has written
  template,             \* the text the top-level call in progress was given
  mode,                 \* the is_uber the top-level call in progress was given
  last,                 \* the tag replaced last and its replacement
  loaded,               \* the files read at line 88 by the call in progress
  text, passes          \* the text under _cleanup_content, and the runs so far

vars == <<pc, fragments, headers, files, base_path, todo, target, std_includes,
          stack, processed_templates, written, template, mode, last,
          loaded, text, passes>>

expandVars == <<pc, fragments, headers, files, base_path, todo, target,
                std_includes, stack, processed_templates, written, template,
                mode, last, loaded>>


\* -------------------------------------------------------------- the calls
Frame(content, is_uber, std, file) ==
  [content |-> content, matches |-> CondMatches(content), pass |-> "cond",
   is_uber |-> is_uber, std |-> std, file |-> file]

NoTag == <<"none">>
NoFile == <<"", "">>

Top == stack[Len(stack)]
SetTop(f) == [stack EXCEPT ![Len(stack)] = f]
TopBranch ==
  Branch(Head(Top.matches), fragments, headers, files, base_path,
         processed_templates, Top.is_uber, Top.std)

\* lines 53-103, one conditional tag that does not load a template
CondTag ==
  /\ stack # <<>>
  /\ Top.pass = "cond"
  /\ Top.matches # <<>>
  /\ TopBranch \notin {"recurse", "error"}
  /\ LET tag == Head(Top.matches)
         replacement == Replacement(tag, TopBranch, fragments, Top.is_uber)
     IN /\ stack' = SetTop([Top EXCEPT
                              !.content = _replace_tag(@, tag, replacement),
                              !.matches = Tail(@)])
        /\ std_includes' = IF TopBranch = "capture"
                           THEN std_includes \cup Captured(tag)
                           ELSE std_includes
        /\ last' = [tag |-> tag, repl |-> replacement, is_uber |-> Top.is_uber]
  /\ UNCHANGED <<pc, fragments, headers, files, base_path, todo, target,
                 processed_templates, written, template, mode, loaded, text, passes>>

\* lines 86-90: the template of a header is read and expanded by a call of
\* its own, with the caller's mode, include set and visited set
Recurse ==
  /\ stack # <<>>
  /\ Top.pass = "cond"
  /\ Top.matches # <<>>
  /\ TopBranch = "recurse"
  /\ LET path == TemplatePath(Value(Head(Top.matches), Top.is_uber)[2], headers)
     IN /\ processed_templates' = processed_templates \cup {path}
        /\ stack' = Append(stack, Frame(files[RealFile(path)], Top.is_uber,
                                        Top.std, RealFile(path)))
        /\ loaded' = Append(loaded, RealFile(path))
  /\ UNCHANGED <<pc, fragments, headers, files, base_path, todo, target,
                 std_includes, written, template, mode, last, text, passes>>

\* lines 86-92: read_file raises, the tag becomes the error placeholder
LoadFail ==
  /\ stack # <<>>
  /\ Top.pass = "cond"
  /\ Top.matches # <<>>
  /\ TopBranch = "error"
  /\ LET tag == Head(Top.matches)
         n == Value(tag, Top.is_uber)[2]
     IN /\ processed_templates' = processed_templates \cup {TemplatePath(n, headers)}
        /\ stack' = SetTop([Top EXCEPT
                              !.content = _replace_tag(@, tag, ErrorProcessing(n)),
                              !.matches = Tail(@)])
        /\ last' = [tag |-> tag, repl |-> ErrorProcessing(n), is_uber |-> Top.is_uber]
  /\ UNCHANGED <<pc, fragments, headers, files, base_path, todo, target,
                 std_includes, written, template, mode, loaded, text, passes>>

\* lines 105-107: the conditional tags are done, the simple tags of the text
\* as it is now are found
BeginSimple ==
  /\ stack # <<>>
  /\ Top.pass = "cond"
  /\ Top.matches = <<>>
  /\ stack' = SetTop([Top EXCEPT !.pass = "simple",
                                 !.matches = SimpleMatches(Top.content)])
  /\ UNCHANGED <<pc, fragments, headers, files, base_path, todo, target,
                 std_includes, processed_templates, written, template, mode, last,
                 loaded, text, passes>>

\* lines 108-114, one simple tag
SimpleTag ==
  /\ stack # <<>>
  /\ Top.pass = "simple"
  /\ Top.matches # <<>>
  /\ LET tag == Head(Top.matches)
         replacement == SimpleReplacement(fragments, tag[2])
     IN /\ stack' = SetTop([Top EXCEPT
                              !.content = _replace_tag(@, tag, replacement),
                              !.matches = Tail(@)])
        /\ last' = [tag |-> tag, repl |-> replacement, is_uber |-> Top.is_uber]
  /\ UNCHANGED <<pc, fragments, headers, files, base_path, todo, target,
                 std_includes, processed_templates, written, template, mode, loaded,
                 text, passes>>

Finished(f) == f.pass = "simple" /\ f.matches = <<>>

\* line 117 of a recursive call, then lines 89 and 103 of its caller
ReturnInner ==
  /\ Len(stack) > 1
  /\ Finished(Top)
  /\ LET caller == stack[Len(stack) - 1]
         tag == Head(caller.matches)
         replacement == _cleanup_content(Top.content)
     IN /\ stack' = [SubSeq(stack, 1, Len(stack) - 1) EXCEPT
                       ![Len(stack) - 1] =
                          [caller EXCEPT
                             !.content = _replace_tag(@, tag, replacement),
                             !.matches = Tail(@)]]
        /\ last' = [tag |-> tag, repl |-> replacement, is_uber |-> caller.is_uber]
  /\ UNCHANGED <<pc, fragments, headers, files, base_path, todo, target,
                 std_includes, processed_templates, written, template, mode, loaded,
                 text, passes>>

\* line 117 of the top-level call, and the write_file of its caller
TopReturn ==
  /\ Len(stack) = 1
  /\ Finished(Top)
  /\ written' = (target :> _cleanup_content(Top.content)) @@ written
  /\ stack' = <<>>
  /\ pc' = CASE pc = "loop" -> "loop"
             [] pc = "root" -> "between"
             [] OTHER -> "done"
  /\ UNCHANGED <<fragments, headers, files, base_path, todo, target,
                 std_includes, processed_templates, template, mode, last, loaded,
                 text, passes>>

\* ------------------------------------------------- generate_modular_files
\* template_name.replace('.tmpl', '.h')
OutputName(f) ==
  CASE f = "a.tmpl" -> "a.h"
    [] f = "b.tmpl" -> "b.h"
    [] f = "c++on.tmpl" -> "c++on.h"
    [] f = "../c++on.tmpl" -> "../c++on.h"
    [] OTHER -> f

\* lines 125-140: the next entry of headers.items()
ModularHeader ==
  /\ pc = "loop"
  /\ stack = <<>>
  /\ todo # <<>>
  /\ todo' = Tail(todo)
  /\ LET key == Head(todo)
         path == TemplatePath(key, headers)
     IN IF key = "CPPON"
        THEN UNCHANGED <<pc, stack, target, processed_templates, template, mode, loaded>>
        ELSE IF RealFile(path) \notin DOMAIN files
        THEN /\ pc' = "failed"
             /\ UNCHANGED <<stack, target, processed_templates, template, mode, loaded>>
        ELSE /\ stack' = <<Frame(files[RealFile(path)], FALSE, TRUE, RealFile(path))>>
             /\ target' = <<"include", Namespace(key), OutputName(headers[key])>>
             /\ processed_templates' = {}
             /\ template' = files[RealFile(path)]
             /\ mode' = FALSE
             /\ loaded' = <<>>
             /\ pc' = pc
  /\ UNCHANGED <<fragments, headers, files, base_path, std_includes, written,
                 last, text, passes>>

\* lines 144-149: the root template, in modular mode
ModularRoot ==
  /\ pc = "loop"
  /\ stack = <<>>
  /\ todo = <<>>
  /\ pc' = "root"
  /\ stack' = <<Frame(files[RootPath], FALSE, TRUE, RootPath)>>
  /\ target' = <<"include", "cppon", "c++on.h">>
  /\ processed_templates' = {}
  /\ template' = files[RootPath]
  /\ mode' = FALSE
  /\ loaded' = <<>>
  /\ UNCHANGED <<fragments, headers, files, base_path, todo, std_includes,
                 written, last, text, passes>>

\* --------------------------------------------------- generate_uber_file
UberPath == <<"single_include", "cppon", "c++on.h">>

\* lines 156-163
UberRoot ==
  /\ pc = "between"
  /\ pc' = "uber"
  /\ fragments' = ("STANDARD_INCLUDES" :> Sorted(std_includes)) @@ fragments
  /\ stack' = <<Frame(files[RootPath], TRUE, FALSE, RootPath)>>
  /\ target' = UberPath
  /\ processed_templates' = {}
  /\ template' = files[RootPath]
  /\ mode' = TRUE
  /\ loaded' = <<>>
  /\ UNCHANGED <<headers, files, base_path, todo, std_includes, written, last,
                 text, passes>>

\* ------------------------------------------------------------- the inputs
FragsLib ==
  [n \in {"FOO", "F", "W", "G", "OTHER"} |->
     CASE n = "FOO" -> << <<Txt("int foo();")>> >>
       [] n = "F" -> << <<Txt("a"), SP>>, <<>>, <<Txt("b")>> >>
       [] n = "W" -> << <<SP>> >>
       [] n = "G" -> << <<Simple("OTHER")>> >>
       [] OTHER -> << <<Txt("zz")>> >>]

PathA == <<"cppon", "a.tmpl">>
PathB == <<"cppon", "b.tmpl">>

RefA == Cond("UBER", "@", "A", "q", "a.h")
RefB == Cond("UBER", "@", "B", "q", "b.h")
RefM == Cond("UBER", "@", "M", "<>", "a")
RefCPPON == Cond("UBER", "@", "CPPON", "lit", "x")
ElseRefB == Cond("DEBUG", "@", "A", "@", "B")
StdCapture(n) == Cond("UBER", "@", "STDCAPTURE", "<>", n)
StdIncludesTag == Cond("UBER", "@", "STANDARD_INCLUDES", "lit", "x")
Missing(n) == Cond("UBER", "@", n, "lit", "x")

HdrLib == [n \in {"A", "B", "M"} |->
             CASE n = "A" -> "a.tmpl" [] n = "B" -> "b.tmpl" [] OTHER -> "m.tmpl"]
FilesLib == (PathA :> <<Txt("A"), RefB>>) @@ (PathB :> <<Txt("B"), RefA>>)

AlphaBlank == {SP, LF, CR, Txt("x"), StdCapture("a"), Simple("W"), Simple("NOPE")}
AlphaFrag == {LF, Txt("// end"), Simple("FOO"), Simple("F"), Simple("G"),
              Simple("OTHER"), Cond("UBER", "@", "G", "lit", "x")}
AlphaRef == {LF, Missing("NOPE"), Missing("ASSERT_MACRO"),
             Missing("STANDARD_INCLUDES"), Missing("STDCAPTURE_ONCE"), RefA,
             RefM, ElseRefB}
Alphabets == {AlphaBlank, AlphaFrag, AlphaRef}
RefTags == {RefA, RefB, RefM, Simple("FOO")}

\* what every single call starts from
InitCall ==
  /\ pc = "call"
  /\ fragments = FragsLib
  /\ headers = HdrLib
  /\ todo = <<>>
  /\ target = <<"out">>
  /\ std_includes = {}
  /\ processed_templates = {}
  /\ written = <<>>
  /\ last = [tag |-> NoTag, repl |-> <<>>, is_uber |-> FALSE]
  /\ loaded = <<>>
  /\ text = <<>>
  /\ passes = 0

\* one call process_template(template, fragments, headers, is_uber, ...) on
\* a text of its own, the templates of the headers A and B naming each other
InitLib ==
  /\ InitCall
  /\ files = FilesLib
  /\ base_path = ".."
  /\ \E alpha \in Alphabets : template \in SeqsUpTo(alpha, MaxLen)
  /\ mode \in BOOLEAN
  /\ stack = <<Frame(template, mode, ~mode, NoFile)>>

\* one call on the template of header A or B, the two templates being any
\* texts of references
InitGraph ==
  /\ InitCall
  /\ files \in [{PathA, PathB} -> SeqsUpTo(RefTags, MaxRefs)]
  /\ base_path \in {"..", "None"}
  /\ mode \in BOOLEAN
  /\ \E top \in {PathA, PathB} :
        /\ template = files[top]
        /\ stack = <<Frame(template, mode, ~mode, top)>>

InitExpand == InitLib \/ InitGraph

NextExpand ==
  \/ CondTag
  \/ Recurse
  \/ LoadFail
  \/ BeginSimple
  \/ SimpleTag
  \/ ReturnInner
  \/ TopReturn

SpecExpand == InitExpand /\ [][NextExpand]_vars

\* the calls on the templates of headers; a call in progress always takes
\* its next step (the program is sequential and nothing suspends it)
LiveGraph == InitGraph /\ [][NextExpand]_vars /\ WF_vars(NextExpand)

\* main(): generate_modular_files, then generate_uber_file
CapTags == {StdCapture("a"), StdCapture("ab"), StdCapture("B"),
            Cond("UBER", "@", "STDCAPTURE", "q", "q.h")}
RootPrefix == <<StdIncludesTag, LF, RefA, LF, RefCPPON, LF, Simple("F"), LF>>
Registries ==
  { [order |-> <<"A", "CPPON">>,
     map |-> ("A" :> "a.tmpl") @@ ("CPPON" :> "c++on.tmpl")],
    [order |-> <<"CPPON", "A">>,
     map |-> ("A" :> "a.tmpl") @@ ("CPPON" :> "../c++on.tmpl")],
    [order |-> <<"A", "B">>,
     map |-> ("A" :> "a.tmpl") @@ ("B" :> "b.tmpl")] }

Init ==
  /\ pc = "loop"
  /\ fragments = FragsLib
  /\ \E r \in Registries : headers = r.map /\ todo = r.order
  /\ \E a \in SeqsUpTo(CapTags, MaxCaps), r \in SeqsUpTo(CapTags, MaxCaps) :
       files = (PathA :> a) @@ (RootPath :> RootPrefix \o r)
  /\ base_path = ".."
  /\ target = <<"out">>
  /\ std_includes = {}
  /\ stack = <<>>
  /\ processed_templates = {}
  /\ written = <<>>
  /\ template = <<>>
  /\ mode = FALSE
  /\ last = [tag |-> NoTag, repl |-> <<>>, is_uber |-> FALSE]
  /\ loaded = <<>>
  /\ text = <<>>
  /\ passes = 0

Next ==
  \/ ModularHeader
  \/ ModularRoot
  \/ UberRoot
  \/ CondTag
  \/ Recurse
  \/ LoadFail
  \/ BeginSimple
  \/ SimpleTag
  \/ ReturnInner
  \/ TopReturn

Spec == Init /\ [][Next]_vars

\* --------------------------------------------- _cleanup_content, on its own
TextChars == {SP, TAB, CR, LF, Txt("x")}

InitCleanup ==
  /\ text \in SeqsUpTo(TextChars, MaxText)
  /\ passes = 0
  /\ pc = "cleanup"
  /\ fragments = FragsLib
  /\ headers = HdrLib
  /\ files = FilesLib
  /\ base_path = ".."
  /\ todo = <<>>
  /\ target = <<"out">>
  /\ std_includes = {}
  /\ stack = <<>>
  /\ processed_templates = {}
  /\ written = <<>>
  /\ template = <<>>
  /\ mode = FALSE
  /\ last = [tag |-> NoTag, repl |-> <<>>, is_uber |-> FALSE]
  /\ loaded = <<>>

ApplyCleanup ==
  /\ passes < 2
  /\ text' = _cleanup_content(text)
  /\ passes' = passes + 1
  /\ UNCHANGED expandVars

SpecCleanup == InitCleanup /\ [][ApplyCleanup]_vars

\* C6: a second run of the trim changes nothing
C6_CleanupIdempotent == passes = 1 => _cleanup_content(text) = text
\* ------------------------------------------------------------- the claims
Elems(s) == {s[i] : i \in 1..Len(s)}
Output == written[target]
Returned == pc = "done"
\* C1: every uber-mode expansion returns, and its recursion is never deeper
\* than one call per registry entry under the top-level call
C1_UberTerminates ==
  /\ (pc = "call" /\ mode) ~> (pc = "done")
  /\ [](Len(stack) <= Cardinality(DOMAIN headers) + 1)

\* C1 witness: an uber expansion of mutually referring templates has
\* returned with the cycle cut by a placeholder
C1_Witness ==
  /\ Returned /\ mode
  /\ Len(loaded) >= 2
  /\ \E t \in Elems(Output) : t[1] = "/*" /\ t[2] = "Circular reference detected"

\* C2: no template file is under expansion twice on the call chain, the
\* top-level one included
C2_NoReentry ==
  \A i, j \in 1..Len(stack) :
    (i < j /\ stack[i].file # NoFile) => stack[i].file # stack[j].file

\* C8: every call under a top-level call has its mode, and a modular-mode
\* expansion reads no template and inlines no header's text
C8_InlineOnlyInUber ==
  /\ \A i \in 1..Len(stack) : stack[i].is_uber = mode
  /\ ~mode => /\ Len(stack) <= 1
              /\ loaded = <<>>
              /\ (Returned /\ files = FilesLib) =>
                    Elems(Output) \cap {Txt("A"), Txt("B")} = {}

\* C8 witness: a modular expansion has returned for a template with a
\* conditional tag whose active branch names a known header
C8_Witness ==
  /\ Returned /\ ~mode
  /\ ElseRefB \in Elems(template)
  /\ "B" \in DOMAIN headers
\* the names of the capture tags [[@UBER ? @STDCAPTURE : <n>]] in the
\* templates that generate_modular_files expands
C3_Names ==
  {t[6] : t \in {u \in Elems(files[PathA]) \cup Elems(files[RootPath]) :
                   u[1] = "[[@" /\ u[3] = "@" /\ u[4] = "STDCAPTURE" /\ u[5] = "<>"}}

\* r is one line "#include <n>" per n of S, in increasing order
C3_IsIncludeBlock(r, S) ==
  LET n == Cardinality(S) IN
  /\ Len(r) = IF n = 0 THEN 0 ELSE 4 * n - 1
  /\ \A k \in 1..n :
       /\ r[4 * k - 3] = <<"lit", "#include">>
       /\ r[4 * k - 2] = <<"ws", " ">>
       /\ r[4 * k - 1][1] = "<>"
       /\ r[4 * k - 1][2] \in S
       /\ k < n => /\ r[4 * k] = <<"ws", "\n">>
                   /\ StrLess(r[4 * k - 1][2], r[4 * k + 3][2])

\* C3: in the uber expansion the STANDARD_INCLUDES tag is rendered as one
\* #include line per include that the modular expansions captured, sorted,
\* each once, and the uber output starts with these lines
C3_IncludeSetComplete ==
  /\ (pc \in {"uber", "done"} /\ last.is_uber /\ last.tag = StdIncludesTag)
       => C3_IsIncludeBlock(last.repl, C3_Names)
  /\ (pc = "done" /\ C3_Names # {})
       => /\ Len(written[UberPath]) >= 4 * Cardinality(C3_Names)
          /\ C3_IsIncludeBlock(
               SubSeq(written[UberPath], 1, 4 * Cardinality(C3_Names) - 1), C3_Names)
          /\ written[UberPath][4 * Cardinality(C3_Names)] = <<"ws", "\n">>

\* C3 witness: three includes were captured, one of them in both templates,
\* and the uber file is written
C3_Witness ==
  /\ pc = "done"
  /\ Cardinality(std_includes) = 3
  /\ StdCapture("a") \in Elems(files[PathA]) \cap Elems(files[RootPath])

\* the names the resolver does not look up as a missing fragment or header
C4_SpecialCased == {"ASSERT_MACRO", "STANDARD_INCLUDES"} \cup StdCaptureNames

\* [[@UBER ? @H : ...]] with H in no registry and not in Except: whenever
\* uber mode resolves it the replacement is the comment naming H, and the
\* comment is in the returned text
C4_PlaceholderExcept(Except) ==
  /\ (/\ last.is_uber
      /\ last.tag[1] = "[[@"
      /\ last.tag[2] = "UBER"
      /\ last.tag[3] = "@"
      /\ last.tag[4] \notin DOMAIN fragments \cup DOMAIN headers \cup Except)
     => /\ Len(last.repl) = 1
        /\ last.repl[1][1] = "/*"
        /\ last.repl[1][3] = last.tag[4]
  /\ (Returned /\ mode) =>
       \A t \in Elems(template) :
         (/\ t[1] = "[[@"
          /\ t[2] = "UBER"
          /\ t[3] = "@"
          /\ t[4] \notin DOMAIN fragments \cup DOMAIN headers \cup Except)
         => \E c \in Elems(Output) : c[1] = "/*" /\ c[3] = t[4]

C5_ResolvesBlank(t) ==
  \/ IsSimple(t) /\ IsBlank(SimpleReplacement(fragments, t[2]))
  \/ /\ IsCond(t)
     /\ LET b == Branch(t, fragments, headers, files, base_path, {}, mode, ~mode)
        IN b \notin {"recurse", "error"} /\ IsBlank(Replacement(t, b, fragments, mode))

\* the line of s that holds position i, removed with at most one blank
\* line that follows it
C5_LineStart(s, i) ==
  IF \E j \in 1..(i - 1) : s[j] = LF
  THEN 1 + CHOOSE j \in 1..(i - 1) : s[j] = LF /\ \A k \in (j + 1)..(i - 1) : s[k] # LF
  ELSE 1
C5_LineEnd(s, i) ==
  IF \E j \in i..Len(s) : s[j] = LF
  THEN CHOOSE j \in i..Len(s) : s[j] = LF /\ \A k \in i..(j - 1) : s[k] # LF
  ELSE Len(s)
C5_WithoutLine(s, i) ==
  LET a == C5_LineStart(s, i)
      e == C5_LineEnd(s, i)
      f == IF e < Len(s) THEN C5_LineEnd(s, e + 1) ELSE e
      blank == e < Len(s) /\ s[f] = LF /\ \A k \in (e + 1)..(f - 1) : s[k] \in {SP, TAB, CR}
  IN SubSeq(s, 1, a - 1) \o SubSeq(s, (IF blank THEN f ELSE e) + 1, Len(s))

\* C5: in a template whose lines end in \n, a tag that resolves to blank
\* text leaves no trace in the returned text, and its whole line goes with
\* at most one blank line after it
C5_BlankLineSuppression ==
  (Returned /\ CR \notin Elems(template)) =>
    /\ \A t \in Elems(template) : C5_ResolvesBlank(t) => t \notin Elems(Output)
    /\ \A i \in 1..Len(template) :
         (/\ C5_ResolvesBlank(template[i])
          /\ \A j \in 1..Len(template) : j # i => ~IsSimple(template[j]) /\ ~IsCond(template[j]))
         => Output = _cleanup_content(C5_WithoutLine(template, i))

\* the lines joined with newlines, written from the last line back
RECURSIVE C7_Verbatim(_)
C7_Verbatim(lines) ==
  IF Len(lines) = 0 THEN <<>>
  ELSE IF Len(lines) = 1 THEN lines[1]
  ELSE C7_Verbatim(SubSeq(lines, 1, Len(lines) - 1)) \o <<LF>> \o lines[Len(lines)]

\* the lines of a text, as str.split('\n') cuts it
RECURSIVE C7_SplitLines(_)
C7_SplitLines(s) ==
  IF \A i \in 1..Len(s) : s[i] # LF THEN <<s>>
  ELSE LET i == CHOOSE j \in 1..Len(s) : s[j] = LF /\ \A k \in 1..(j - 1) : s[k] # LF
       IN <<SubSeq(s, 1, i - 1)>> \o C7_SplitLines(SubSeq(s, i + 1, Len(s)))

\* s with every simple tag replaced in place by the lines of its fragment
RECURSIVE C7_Substituted(_)
C7_Substituted(s) ==
  IF s = <<>> THEN <<>>
  ELSE (IF s[1][1] = "[[" THEN C7_Verbatim(fragments[s[1][2]]) ELSE <<s[1]>>)
         \o C7_Substituted(Tail(s))

\* needle is a contiguous part of hay
C7_Occurs(needle, hay) ==
  \E i \in 0..(Len(hay) - Len(needle)) : SubSeq(hay, i + 1, i + Len(needle)) = needle

\* a simple tag of a fragment whose lines hold no tag and are not all blank
C7_IsPlainTag(t) ==
  /\ t[1] = "[["
  /\ t[2] \in DOMAIN fragments
  /\ \E x \in Elems(C7_Verbatim(fragments[t[2]])) : x[1] # "ws"
  /\ \A x \in Elems(C7_Verbatim(fragments[t[2]])) : x[1] \notin {"[[", "[[@"}

\* C7 (as amended): the text resolved for [[F]] is the lines of F joined
\* with newlines, verbatim; where all the tags of the template are simple
\* tags of fragments that hold no tag and are not blank, the returned text
\* is the template with each tag replaced in place by that text, less the
\* spaces and tabs before a line end that the final cleanup removes
C7_FragmentVerbatim ==
  /\ (last.tag[1] = "[[" /\ last.tag[2] \in DOMAIN fragments)
       => C7_SplitLines(last.repl) = fragments[last.tag[2]]
  /\ (Returned /\ ~mode /\ template = <<Simple("FOO"), LF, LF, Txt("// end")>>)
       => Output = <<Txt("int foo();"), LF, LF, Txt("// end")>>
  /\ (Returned /\ \A t \in Elems(template) : t[1] \in {"[[", "[[@"} => C7_IsPlainTag(t))
       => Output = _cleanup_content(C7_Substituted(template))

\* C7 (as claimed): the lines of F, joined, stand unchanged in the returned
\* text of every template that holds [[F]] (shown for the fragments that
\* hold no tag and are not blank)
C7_FragmentVerbatimInOutput ==
  Returned =>
    \A t \in Elems(template) :
      C7_IsPlainTag(t) => C7_Occurs(C7_Verbatim(fragments[t[2]]), Output)

\* C7 witness: a template with [[F]], F holding a blank line and a line that
\* ends in a space, and no tag but simple tags of plain fragments, has been
\* expanded
C7_Witness ==
  /\ Returned
  /\ Simple("F") \in Elems(template)
  /\ Len(template) > 1
  /\ \A t \in Elems(template) : t[1] \in {"[[", "[[@"} => C7_IsPlainTag(t)

\* C9: a simple tag of an unknown name is surfaced as a placeholder comment
\* naming it in the returned text
C9_MissingSimpleSurfaced ==
  Returned =>
    \A t \in Elems(template) :
      (t[1] = "[[" /\ t[2] \notin DOMAIN fragments)
      => \E c \in Elems(Output) : c[1] = "/*" /\ c[3] = t[2]

\* C10: tag-shaped text in the lines of a fragment that a tag of the
\* template inserted stays unexpanded in the returned text
C10_InsertedTextNotExpanded ==
  Returned =>
    \A t \in Elems(template) :
      \A g \in DOMAIN fragments :
        (\/ t = Simple(g)
         \/ mode /\ t[1] = "[[@" /\ t[2] = "UBER" /\ t[3] = "@" /\ t[4] = g)
        => \A x \in Elems(C7_Verbatim(fragments[g])) :
             x[1] = "[[" => x \in Elems(Output)
====
